---- MODULE Spec2Model ----
(***************************************************************************)
(* The Jarvis executor MCP servers of holler-next.                         *)
(*                                                                         *)
(*   server.py     the file variant: five tools over holler-sessions.json  *)
(*   server_v2.py  the v2 variant: phrase detection and a subprocess       *)
(*                                                                         *)
(* Texts, plans and phrases are sequences of one-character strings, so     *)
(* that lower(), strip(), re.sub(r'\s+', ' ', .), `in` and len() are       *)
(* computed character by character.                                        *)
(***************************************************************************)
EXTENDS Integers, Sequences, FiniteSets, TLC

VARIABLES
    store,   \* holler-sessions.json: the state of the file and the document in it
    text,    \* the text argument of the last tool call (<<>> when it took none)
    call,    \* the last tool call: its name and arguments
    result,  \* what the last tool call returned
    io,      \* the store/runner accesses the last tool call made, and how the runner ended
    inflight \* per server process: the tool call it is in the middle of

vars == <<store, text, call, result, io, inflight>>

----------------------------------------------------------------------------
(* Bounds *)

\* the largest number of sessions the initial store holds
MaxSessions == 2

\* the number of server processes that share the store file
NumProcs == 2

\* the largest number of irregular gaps (anything but one space) between the
\* words of a generated text
MaxIrregular == 1

----------------------------------------------------------------------------
(* The session store *)

\* the id of the i-th session of the store (ids are opaque and unique, so
\* the store order s1, s2, ... loses no generality); ids past MaxSessions
\* are ids no session has
SessionIdAt == <<"s1", "s2", "s3", "s4", "s5">>

Ids == {SessionIdAt[i] : i \in 1..MaxSessions}

\* an id absent from every store
AbsentId == SessionIdAt[MaxSessions + 1]

\* JSON null / a missing "activeSessionId" key
NoId == "null"

\* the modes the spec enumerates
Modes == {"planning", "execution"}

\* the mode strings a caller passes to update_session_mode: any string
ModeArgs == Modes \cup {"paused"}

PlanText == <<"d", "o", " ", "X">>

\* a session's plan: empty or a text
Plans == {<<>>, PlanText}

\* the value of a store that holds no parseable document
NoData == [activeSessionId |-> NoId, sessions |-> <<>>]

SessionAttrs == [jarvisMode : BOOLEAN, mode : Modes, plan : Plans]

\* the session collections of n sessions, in store order
SessionsOfLen(n) ==
    { [i \in 1..n |-> [id         |-> SessionIdAt[i],
                       name       |-> "Main",
                       jarvisMode |-> f[i].jarvisMode,
                       mode       |-> f[i].mode,
                       plan       |-> f[i].plan]] : f \in [1..n -> SessionAttrs] }

\* the stores the servers can be started on: a document with its sessions, a
\* file that holds the empty object {}, or no file
InitStores ==
    { [file |-> "ok", data |-> [activeSessionId |-> a, sessions |-> s]] :
        a \in Ids \cup {NoId, AbsentId},
        s \in UNION {SessionsOfLen(n) : n \in 0..MaxSessions} }
    \cup { [file |-> f, data |-> NoData] : f \in {"empty", "missing"} }

\* how one call of write_sessions_file can end: written; open(.., 'w')
\* raised; open truncated the file and json.dump raised
WriteOutcomes == {"ok", "open_failed", "dump_failed"}

\* read_sessions_file: the parsed document, or None when the file is missing
\* or does not parse
read_sessions_file(st) ==
    CASE st.file = "ok"    -> [value |-> "document", data |-> st.data]
      [] st.file = "empty" -> [value |-> "{}", data |-> NoData]
      [] OTHER             -> [value |-> "None", data |-> NoData]

\* `not sessions_data`: None and the empty object are falsy
Falsy(sessions_data) == sessions_data.value # "document"

\* write_sessions_file: the store it leaves and the bool it returns
write_sessions_file(st, sessions_data, w) ==
    CASE w = "ok"          -> [store |-> [file |-> "ok", data |-> sessions_data],
                               returned |-> TRUE]
      [] w = "open_failed" -> [store |-> st, returned |-> FALSE]
      [] w = "dump_failed" -> [store |-> [file |-> "corrupt", data |-> NoData],
                               returned |-> FALSE]

\* `for session in sessions: if session.get("id") == session_id: ... break`:
\* the index of the first session with that id, 0 when there is none
FindSession(sessions, session_id) ==
    LET hits == {i \in 1..Len(sessions) : sessions[i].id = session_id}
    IN  IF hits = {} THEN 0 ELSE CHOOSE i \in hits : \A j \in hits : i <= j

\* the sessions a store holds (none when it holds no parseable document)
StoreSessions(st) == read_sessions_file(st).data.sessions

----------------------------------------------------------------------------
(* Text: str.lower, str.strip, re.sub(r'\s+', ' ', .) and `in` *)

LOWER == <<"a", "b", "c", "d", "e", "f", "g", "h", "i", "j", "k", "l", "m", "n", "o", "p", "q", "r", "s", "t", "u", "v", "w", "x", "y", "z">>

UPPER == <<"A", "B", "C", "D", "E", "F", "G", "H", "I", "J", "K", "L", "M", "N", "O", "P", "Q", "R", "S", "T", "U", "V", "W", "X", "Y", "Z">>

\* the characters \s matches and str.strip removes
Whitespace == {" ", "\t", "\n", "\r"}

\* the lower-case letter of each upper-case letter, and the reverse
ToLower == [c \in {UPPER[i] : i \in 1..Len(UPPER)} |->
               LOWER[CHOOSE i \in 1..Len(UPPER) : UPPER[i] = c]]

ToUpper == [c \in {LOWER[i] : i \in 1..Len(LOWER)} |->
               UPPER[CHOOSE i \in 1..Len(LOWER) : LOWER[i] = c]]

\* str.lower()
lower(s) == [i \in 1..Len(s) |-> IF s[i] \in DOMAIN ToLower THEN ToLower[s[i]] ELSE s[i]]

\* str.upper()
upper(s) == [i \in 1..Len(s) |-> IF s[i] \in DOMAIN ToUpper THEN ToUpper[s[i]] ELSE s[i]]

\* str.strip(): drop the leading and the trailing whitespace
strip(s) ==
    LET solid == {i \in 1..Len(s) : s[i] \notin Whitespace}
        lo    == CHOOSE i \in solid : \A j \in solid : i <= j
        hi    == CHOOSE i \in solid : \A j \in solid : i >= j
    IN  IF solid = {} THEN <<>> ELSE SubSeq(s, lo, hi)

RECURSIVE re_sub_ws(_)
\* re.sub(r'\s+', ' ', s): every maximal run of whitespace becomes one space
re_sub_ws(s) ==
    IF s = <<>> THEN <<>>
    ELSE IF Head(s) \notin Whitespace THEN <<Head(s)>> \o re_sub_ws(Tail(s))
    ELSE IF Len(s) > 1 /\ s[2] \in Whitespace THEN re_sub_ws(Tail(s))
    ELSE <<" ">> \o re_sub_ws(Tail(s))

\* Python's `needle in hay` on strings
Contains(hay, needle) ==
    \E i \in 0..(Len(hay) - Len(needle)) :
        \A j \in 1..Len(needle) : hay[i + j] = needle[j]

RECURSIVE Join(_)
\* the words of a phrase, with one space between them
Join(words) ==
    IF Len(words) = 0 THEN <<>>
    ELSE IF Len(words) = 1 THEN words[1]
    ELSE words[1] \o <<" ">> \o Join(Tail(words))

MagicWords == <<<<"g", "o">>, <<"t", "o">>, <<"p", "o", "u", "n", "d">>, <<"t", "o", "w", "n">>, <<"c", "l", "a", "u", "d", "e">>, <<"c", "o", "d", "e">>>>

\* "go to pound town claude code"
MAGIC_PHRASE == Join(MagicWords)

ExecutionWords ==
    << MagicWords,
       <<<<"g", "o">>, <<"t", "o">>, <<"p", "o", "u", "n", "d">>, <<"t", "o", "w", "n">>>>,
       <<<<"e", "x", "e", "c", "u", "t", "e">>, <<"t", "h", "e">>, <<"p", "l", "a", "n">>>>,
       <<<<"r", "u", "n">>, <<"t", "h", "e">>, <<"p", "l", "a", "n">>>>,
       <<<<"s", "t", "a", "r", "t">>, <<"e", "x", "e", "c", "u", "t", "i", "o", "n">>>>,
       <<<<"b", "e", "g", "i", "n">>, <<"i", "m", "p", "l", "e", "m", "e", "n", "t", "a", "t", "i", "o", "n">>>> >>

\* the trigger phrases of the v2 variant, in priority order
EXECUTION_PHRASES == [k \in 1..Len(ExecutionWords) |-> Join(ExecutionWords[k])]

\* `normalized_text = re.sub(r'\s+', ' ', text.lower().strip())`
NormalizedText(t) == re_sub_ws(strip(lower(t)))

----------------------------------------------------------------------------
(* The texts the phrase detectors are run on *)

RECURSIVE Render(_, _)
\* the words, with gaps[i] between word i and word i+1
Render(words, gaps) ==
    IF Len(words) = 0 THEN <<>>
    ELSE IF Len(words) = 1 THEN words[1]
    ELSE words[1] \o gaps[1] \o Render(Tail(words), Tail(gaps))

\* a word in a letter casing
Styled(style, word) ==
    CASE style = "lower" -> word
      [] style = "UPPER" -> upper(word)
      [] style = "Title" -> upper(<<Head(word)>>) \o Tail(word)

Space == <<" ">>

\* gaps that are not one space: whitespace runs, and no whitespace at all
IrregularGaps == { <<" ", " ", " ">>, <<"\t">>, <<" ", "\n">>, <<>> }

GapChoices(n) ==
    { g \in [1..n -> {Space} \cup IrregularGaps] :
        Cardinality({i \in 1..n : g[i] # Space}) <= MaxIrregular }

\* word lists that are no trigger phrase of either variant
OtherWords ==
    { <<<<"g", "o">>, <<"t", "o">>, <<"t", "o", "w", "n">>>>,
      <<<<"t", "h", "e">>, <<"p", "l", "a", "n">>>> }

BaseWords == {ExecutionWords[k] : k \in 1..Len(ExecutionWords)} \cup OtherWords

Prefixes == { <<>>, <<" ", " ">>, <<"x", "\n">> }

Suffixes == { <<>>, <<" ", " ">>, <<"!">> }

Styles == {"lower", "UPPER", "Title"}

\* the renderings of one word list
TextsOf(b) ==
    { pre \o Render([i \in 1..Len(b) |-> Styled(style, b[i])], g) \o suf :
        pre \in Prefixes, suf \in Suffixes, style \in Styles,
        g \in GapChoices(Len(b) - 1) }

Texts == UNION {TextsOf(b) : b \in BaseWords}

\* spec.md section 8: "  GO TO POUND TOWN claude code  ",
\* "Go   TO Pound Town Claude Code", and a text without the phrase
SomeTexts ==
    { <<" ", " ">> \o upper(Join(SubSeq(MagicWords, 1, 4))) \o Space
         \o Join(SubSeq(MagicWords, 5, 6)) \o <<" ", " ">>,
      Render([i \in 1..6 |-> Styled(IF i = 2 THEN "UPPER" ELSE "Title", MagicWords[i])],
             [i \in 1..5 |-> IF i = 1 THEN <<" ", " ", " ">> ELSE Space]),
      <<"g", "o", " ", "t", "o", " ", "t", "o", "w", "n">> }

----------------------------------------------------------------------------
(* Results *)

None == <<>>

Failure(error) == [success |-> FALSE, error |-> error]

\* what a tool call did: its result, the store it leaves, how many times it
\* read the store, and how its write (if any) ended
Outcome(res, st, reads, write) ==
    [result |-> res, store |-> st, reads |-> reads, write |-> write]

\* the f-string of execute_plan, as its pieces in order
ExecutionPrompt(plan, session_id) ==
    << "EXECUTION MODE: One-Shot Plan Implementation ... Execute the following plan completely and thoroughly: ",
       plan,
       " ... Execution Context - Session ID: ",
       session_id,
       " - Mode: EXECUTION (one-shot) ... BEGIN EXECUTION NOW" >>

----------------------------------------------------------------------------
(* server.py: the tools, as functions of the store                         *)
(*                                                                         *)
(* A call can end in more than one way when it writes the store, so each   *)
(* tool is the set of the outcomes a call can have.                        *)

\* execute_plan with the plan looked at before jarvisMode
execute_plan_call_PlanFirst(st, session_id) ==
    LET sessions_data  == read_sessions_file(st)
        i              == FindSession(sessions_data.data.sessions, session_id)
        target_session == sessions_data.data.sessions[i]
        plan           == target_session.plan
        updated        == [sessions_data.data EXCEPT !.sessions[i].mode = "execution"]
    IN  IF Falsy(sessions_data)
        THEN {Outcome(Failure(<<"Could not read sessions file">>), st, 1, "none")}
        ELSE IF i = 0
        THEN {Outcome(Failure(<<"Session ", session_id, " not found">>), st, 1, "none")}
        ELSE IF plan = <<>>
        THEN {Outcome(Failure(<<"No plan found for execution">>), st, 1, "none")}
        ELSE IF ~target_session.jarvisMode
        THEN {Outcome(Failure(<<"Session ", session_id, " is not in Jarvis mode">>),
                      st, 1, "none")}
        ELSE {Outcome([success          |-> TRUE,
                       session_id       |-> session_id,
                       mode_updated     |-> "execution",
                       plan_length      |-> Len(plan),
                       execution_prompt |-> ExecutionPrompt(plan, session_id),
                       next_action      |-> "clear_context_and_execute"],
                      write_sessions_file(st, updated, w).store, 1, w) :
                 w \in WriteOutcomes}

\* execute_plan with the mode stored before jarvisMode and the plan are looked at
execute_plan_call_WriteFirst(st, session_id) ==
    LET sessions_data  == read_sessions_file(st)
        i              == FindSession(sessions_data.data.sessions, session_id)
        target_session == sessions_data.data.sessions[i]
        plan           == target_session.plan
        updated        == [sessions_data.data EXCEPT !.sessions[i].mode = "execution"]
    IN  IF Falsy(sessions_data)
        THEN {Outcome(Failure(<<"Could not read sessions file">>), st, 1, "none")}
        ELSE IF i = 0
        THEN {Outcome(Failure(<<"Session ", session_id, " not found">>), st, 1, "none")}
        ELSE {Outcome(IF ~target_session.jarvisMode
                      THEN Failure(<<"Session ", session_id, " is not in Jarvis mode">>)
                      ELSE IF plan = <<>>
                      THEN Failure(<<"No plan found for execution">>)
                      ELSE [success          |-> TRUE,
                            session_id       |-> session_id,
                            mode_updated     |-> "execution",
                            plan_length      |-> Len(plan),
                            execution_prompt |-> ExecutionPrompt(plan, session_id),
                            next_action      |-> "clear_context_and_execute"],
                      write_sessions_file(st, updated, w).store, 1, w) :
                 w \in WriteOutcomes}

execute_plan_call(st, session_id) ==
    LET sessions_data  == read_sessions_file(st)
        i              == FindSession(sessions_data.data.sessions, session_id)
        target_session == sessions_data.data.sessions[i]
        plan           == target_session.plan
        updated        == [sessions_data.data EXCEPT !.sessions[i].mode = "execution"]
    IN  IF Falsy(sessions_data)
        THEN {Outcome(Failure(<<"Could not read sessions file">>), st, 1, "none")}
        ELSE IF i = 0
        THEN {Outcome(Failure(<<"Session ", session_id, " not found">>), st, 1, "none")}
        ELSE IF ~target_session.jarvisMode
        THEN {Outcome(Failure(<<"Session ", session_id, " is not in Jarvis mode">>),
                      st, 1, "none")}
        ELSE IF plan = <<>>
        THEN {Outcome(Failure(<<"No plan found for execution">>), st, 1, "none")}
        ELSE \* the bool write_sessions_file returns is dropped
             {Outcome([success          |-> TRUE,
                       session_id       |-> session_id,
                       mode_updated     |-> "execution",
                       plan_length      |-> Len(plan),
                       execution_prompt |-> ExecutionPrompt(plan, session_id),
                       next_action      |-> "clear_context_and_execute"],
                      write_sessions_file(st, updated, w).store, 1, w) :
                 w \in WriteOutcomes}

\* get_active_jarvis_session without the activeSessionId pass: the first
\* Jarvis session, whatever the pointer names
get_active_jarvis_session_call_NoPointer(st) ==
    LET sessions_data == read_sessions_file(st)
        sessions      == sessions_data.data.sessions
        jarvis == {i \in 1..Len(sessions) : sessions[i].jarvisMode}
        First(S) == CHOOSE i \in S : \A j \in S : i <= j
    IN  IF Falsy(sessions_data) THEN {Outcome(None, st, 1, "none")}
        ELSE IF jarvis # {} THEN {Outcome(<<sessions[First(jarvis)]>>, st, 1, "none")}
        ELSE {Outcome(None, st, 1, "none")}

\* get_active_jarvis_session preferring, among the Jarvis sessions, one that
\* is in mode "planning" and has a plan
get_active_jarvis_session_call_PreferPlanned(st) ==
    LET sessions_data     == read_sessions_file(st)
        sessions          == sessions_data.data.sessions
        active_session_id == sessions_data.data.activeSessionId
        planned == {i \in 1..Len(sessions) :
                       /\ sessions[i].jarvisMode
                       /\ sessions[i].mode = "planning"
                       /\ sessions[i].plan # <<>>}
        active == {i \in 1..Len(sessions) :
                      sessions[i].id = active_session_id /\ sessions[i].jarvisMode}
        jarvis == {i \in 1..Len(sessions) : sessions[i].jarvisMode}
        First(S) == CHOOSE i \in S : \A j \in S : i <= j
    IN  IF Falsy(sessions_data) THEN {Outcome(None, st, 1, "none")}
        ELSE IF planned # {} THEN {Outcome(<<sessions[First(planned)]>>, st, 1, "none")}
        ELSE IF active # {} THEN {Outcome(<<sessions[First(active)]>>, st, 1, "none")}
        ELSE IF jarvis # {} THEN {Outcome(<<sessions[First(jarvis)]>>, st, 1, "none")}
        ELSE {Outcome(None, st, 1, "none")}

\* returns Optional[session]: None, or the session in a 1-tuple
get_active_jarvis_session_call(st) ==
    LET sessions_data     == read_sessions_file(st)
        sessions          == sessions_data.data.sessions
        active_session_id == sessions_data.data.activeSessionId
        active == {i \in 1..Len(sessions) :
                      sessions[i].id = active_session_id /\ sessions[i].jarvisMode}
        jarvis == {i \in 1..Len(sessions) : sessions[i].jarvisMode}
        First(S) == CHOOSE i \in S : \A j \in S : i <= j
    IN  IF Falsy(sessions_data) THEN {Outcome(None, st, 1, "none")}
        ELSE IF active # {} THEN {Outcome(<<sessions[First(active)]>>, st, 1, "none")}
        ELSE IF jarvis # {} THEN {Outcome(<<sessions[First(jarvis)]>>, st, 1, "none")}
        ELSE {Outcome(None, st, 1, "none")}

update_session_mode_call(st, session_id, mode) ==
    LET sessions_data == read_sessions_file(st)
        i             == FindSession(sessions_data.data.sessions, session_id)
        updated       == [sessions_data.data EXCEPT !.sessions[i].mode = mode]
    IN  IF Falsy(sessions_data)
        THEN {Outcome(Failure(<<"Could not read sessions file">>), st, 1, "none")}
        ELSE IF i # 0
        THEN \* the bool write_sessions_file returns is dropped
             {Outcome([success |-> TRUE, session_id |-> session_id, new_mode |-> mode],
                      write_sessions_file(st, updated, w).store, 1, w) :
                 w \in WriteOutcomes}
        ELSE {Outcome(Failure(<<"Session ", session_id, " not found">>), st, 1, "none")}

\* get_current_plan, given what its get_active_jarvis_session call did
CurrentPlan(got) ==
    LET active_session == got.result[1]
        plan           == active_session.plan
        mode           == active_session.mode
    IN  IF got.result = None
        THEN Outcome([success    |-> FALSE,
                      error      |-> <<"No active Jarvis session found">>,
                      suggestion |-> "Enable Jarvis Mode on a session first"],
                     got.store, got.reads, "none")
        ELSE Outcome([success             |-> TRUE,
                      session_id          |-> active_session.id,
                      session_name        |-> active_session.name,
                      current_mode        |-> mode,
                      plan                |-> IF plan # <<>> THEN plan
                                              ELSE <<"No plan created yet">>,
                      plan_length         |-> IF plan # <<>> THEN Len(plan) ELSE 0,
                      ready_for_execution |-> (plan # <<>> /\ mode = "planning")],
                     got.store, got.reads, "none")

get_current_plan_call(st) ==
    {CurrentPlan(got) : got \in get_active_jarvis_session_call(st)}

\* `phrase_detected = normalized_phrase in normalized_text`
PhraseDetected(t) == Contains(NormalizedText(t), lower(MAGIC_PHRASE))

\* detect_magic_phrase after a match, given what its get_active_jarvis_session
\* call did
TriggerExecution(got) ==
    LET active_session == got.result[1]
    IN  IF got.result = None
        THEN {Outcome([phrase_detected     |-> TRUE,
                       magic_phrase        |-> MAGIC_PHRASE,
                       error               |-> <<"No active Jarvis session found">>,
                       execution_triggered |-> FALSE,
                       action_needed       |-> "enable_jarvis_mode_first"],
                      got.store, got.reads, "none")}
        ELSE {IF execution.result.success
              THEN Outcome([phrase_detected      |-> TRUE,
                            magic_phrase         |-> MAGIC_PHRASE,
                            execution_triggered  |-> TRUE,
                            session_id           |-> active_session.id,
                            session_mode_updated |-> "execution",
                            clear_command        |-> "/clear",
                            execution_prompt     |-> execution.result.execution_prompt,
                            workflow_complete    |-> TRUE,
                            message              |-> "EXECUTION MODE ACTIVATED!"],
                           execution.store, got.reads + execution.reads,
                           execution.write)
              ELSE Outcome([phrase_detected     |-> TRUE,
                            magic_phrase        |-> MAGIC_PHRASE,
                            execution_triggered |-> FALSE,
                            error               |-> execution.result.error,
                            session_id          |-> active_session.id],
                           execution.store, got.reads + execution.reads,
                           execution.write) :
                 execution \in execute_plan_call(got.store, active_session.id)}

\* detect_magic_phrase with the active session looked up before the text is
\* tested
detect_magic_phrase_call_LookupFirst(st, t) ==
    UNION {IF PhraseDetected(t)
           THEN TriggerExecution(got)
           ELSE {Outcome([phrase_detected     |-> FALSE,
                          magic_phrase        |-> MAGIC_PHRASE,
                          execution_triggered |-> FALSE,
                          message |-> "Magic phrase not detected. Continue planning."],
                         got.store, got.reads, "none")} :
              got \in get_active_jarvis_session_call(st)}

detect_magic_phrase_call(st, t) ==
    IF PhraseDetected(t)
    THEN UNION {TriggerExecution(got) : got \in get_active_jarvis_session_call(st)}
    ELSE {Outcome([phrase_detected     |-> FALSE,
                   magic_phrase        |-> MAGIC_PHRASE,
                   execution_triggered |-> FALSE,
                   message |-> "Magic phrase not detected. Continue planning."],
                  st, 0, "none")}

----------------------------------------------------------------------------
(* server_v2.py: the tools, as functions of the text and the runner *)

\* how subprocess.run(["node", ".../execute-jarvis-plan.js"], timeout=30) ends:
\* exit code 0, another exit code, TimeoutExpired, another exception
RunnerOutcomes == {"exit0", "nonzero", "timeout", "raises"}

\* what a v2 tool call did: its result and how many times it ran the runner
OutcomeV2(res, runs) == [result |-> res, runs |-> runs]

\* `for phrase in EXECUTION_PHRASES: if phrase.lower() in normalized_text`:
\* the index of the first phrase the text holds, 0 when it holds none
DetectedPhrase(normalized_text) ==
    LET hits == {k \in 1..Len(EXECUTION_PHRASES) :
                    Contains(normalized_text, lower(EXECUTION_PHRASES[k]))}
    IN  IF hits = {} THEN 0 ELSE CHOOSE k \in hits : \A j \in hits : k <= j

\* analyze_user_input_for_execution_intent with one more try of the runner
\* after a non-zero exit
analyze_user_input_for_execution_intent_call_Retry(user_message, r) ==
    LET normalized_text == NormalizedText(user_message)
        k               == DetectedPhrase(normalized_text)
        detected_phrase == EXECUTION_PHRASES[k]
        status == CASE r = "exit0"   -> "success"
                    [] r = "nonzero" -> "error"
                    [] r = "timeout" -> "timeout"
                    [] r = "raises"  -> "exception"
        base   == [execution_triggered |-> TRUE,
                   detected_phrase     |-> detected_phrase,
                   command_executed    |-> "/execute-plan",
                   status              |-> status,
                   message             |-> <<status, detected_phrase>>]
    IN  IF k = 0
        THEN OutcomeV2([execution_triggered |-> FALSE,
                        detected_phrase     |-> None,
                        status              |-> "monitoring",
                        message |-> "No execution phrase detected. Continue planning."],
                       0)
        ELSE IF r = "exit0"
        THEN OutcomeV2(base @@ [command_output |-> "stdout"], 1)
        ELSE IF r = "nonzero"
        THEN OutcomeV2(base @@ [command_error |-> "stderr"], 2)
        ELSE OutcomeV2(base, 1)

analyze_user_input_for_execution_intent_call(user_message, r) ==
    LET normalized_text == NormalizedText(user_message)
        k               == DetectedPhrase(normalized_text)
        detected_phrase == EXECUTION_PHRASES[k]
        status == CASE r = "exit0"   -> "success"
                    [] r = "nonzero" -> "error"
                    [] r = "timeout" -> "timeout"
                    [] r = "raises"  -> "exception"
        base   == [execution_triggered |-> TRUE,
                   detected_phrase     |-> detected_phrase,
                   command_executed    |-> "/execute-plan",
                   status              |-> status,
                   message             |-> <<status, detected_phrase>>]
    IN  IF k = 0
        THEN OutcomeV2([execution_triggered |-> FALSE,
                        detected_phrase     |-> None,
                        status              |-> "monitoring",
                        message |-> "No execution phrase detected. Continue planning."],
                       0)
        ELSE IF r = "exit0"
        THEN OutcomeV2(base @@ [command_output |-> "stdout"], 1)
        ELSE IF r = "nonzero"
        THEN OutcomeV2(base @@ [command_error |-> "stderr"], 1)
        ELSE OutcomeV2(base, 1)

check_for_execution_command_call(t, r) ==
    IF Contains(lower(t), MAGIC_PHRASE)
    THEN analyze_user_input_for_execution_intent_call(t, r)
    ELSE OutcomeV2([execution_triggered |-> FALSE,
                    message |-> "Not the magic execution phrase."], 0)

respond_to_planning_messages_call(user_input, r) ==
    LET execution_check == analyze_user_input_for_execution_intent_call(user_input, r)
    IN  IF execution_check.result.execution_triggered
        THEN execution_check
        ELSE OutcomeV2([execution_triggered |-> FALSE,
                        mode    |-> "planning",
                        message |-> "Continuing in planning mode."],
                       execution_check.runs)

----------------------------------------------------------------------------
(* The tools, as actions *)

\* the server processes (one stdio server per client), none of them in a call
Procs == 1..NumProcs

Idle == [p \in Procs |-> [pc |-> "idle"]]

Init ==
    /\ store \in InitStores
    /\ text = <<>>
    /\ call = [op |-> "none"]
    /\ result = [success |-> TRUE]
    /\ io = [reads |-> 0, write |-> "none", runs |-> 0, runner |-> "none"]
    /\ inflight = Idle

\* the effect of a tool call of server.py that ends with outcome o
Returns(c, t, o) ==
    /\ call' = c
    /\ text' = t
    /\ result' = o.result
    /\ store' = o.store
    /\ io' = [reads |-> o.reads, write |-> o.write, runs |-> 0, runner |-> "none"]
    /\ UNCHANGED inflight

execute_plan(session_id) ==
    \E o \in execute_plan_call(store, session_id) :
        Returns([op |-> "execute_plan", session_id |-> session_id], <<>>, o)

update_session_mode(session_id, mode) ==
    \E o \in update_session_mode_call(store, session_id, mode) :
        Returns([op |-> "update_session_mode", session_id |-> session_id,
                 mode |-> mode], <<>>, o)

get_active_jarvis_session ==
    \E o \in get_active_jarvis_session_call(store) :
        Returns([op |-> "get_active_jarvis_session"], <<>>,
                [o EXCEPT !.result = [returned |-> o.result]])

get_current_plan ==
    \E o \in get_current_plan_call(store) :
        Returns([op |-> "get_current_plan"], <<>>, o)

detect_magic_phrase(t) ==
    \E o \in detect_magic_phrase_call(store, t) :
        Returns([op |-> "detect_magic_phrase"], t, o)

\* the effect of a tool call of server_v2.py with outcome o
ReturnsV2(c, t, r, o) ==
    /\ call' = c
    /\ text' = t
    /\ result' = o.result
    /\ io' = [reads |-> 0, write |-> "none", runs |-> o.runs,
              runner |-> IF o.runs = 0 THEN "none" ELSE r]
    /\ UNCHANGED <<store, inflight>>

analyze_user_input_for_execution_intent(user_message, r) ==
    ReturnsV2([op |-> "analyze_user_input_for_execution_intent"], user_message, r,
              analyze_user_input_for_execution_intent_call(user_message, r))

check_for_execution_command(t, r) ==
    ReturnsV2([op |-> "check_for_execution_command"], t, r,
              check_for_execution_command_call(t, r))

respond_to_planning_messages(user_input, r) ==
    ReturnsV2([op |-> "respond_to_planning_messages"], user_input, r,
              respond_to_planning_messages_call(user_input, r))

Next ==
    \/ \E t \in SomeTexts : detect_magic_phrase(t)
    \/ \E id \in Ids \cup {AbsentId} : execute_plan(id)
    \/ \E id \in Ids \cup {AbsentId} : \E m \in ModeArgs : update_session_mode(id, m)
    \/ get_active_jarvis_session
    \/ get_current_plan

\* server.py on any store, its phrase detector on a few texts
Spec == Init /\ [][Next]_vars

\* one session ready for the handoff, the active one
ReadyStore ==
    [file |-> "ok",
     data |-> [activeSessionId |-> SessionIdAt[1],
               sessions |-> << [id |-> SessionIdAt[1], name |-> "Main",
                                jarvisMode |-> TRUE, mode |-> "planning",
                                plan |-> PlanText] >>]]

InitPhrase ==
    /\ store = ReadyStore
    /\ text \in Texts
    /\ call = [op |-> "none"]
    /\ result = [success |-> TRUE]
    /\ io = [reads |-> 0, write |-> "none", runs |-> 0, runner |-> "none"]
    /\ inflight = Idle

NextPhrase ==
    \/ detect_magic_phrase(text)
    \/ \E r \in RunnerOutcomes : analyze_user_input_for_execution_intent(text, r)
    \/ \E r \in RunnerOutcomes : check_for_execution_command(text, r)
    \/ \E r \in RunnerOutcomes : respond_to_planning_messages(text, r)

\* every phrase-detection entry point of both variants, on one text of Texts
SpecPhrase == InitPhrase /\ [][NextPhrase]_vars

----------------------------------------------------------------------------
(* Two mode-changing calls in different server processes.  Each call reads *)
(* the file once, near its start, and rewrites the whole file near its     *)
(* end; another process can run between the two.                           *)

\* a store whose sessions all are Jarvis sessions with a plan
RaceStores ==
    {[file |-> "ok",
      data |-> [activeSessionId |-> SessionIdAt[1], sessions |-> ss]] :
        ss \in {x \in SessionsOfLen(MaxSessions) :
                   \A i \in 1..MaxSessions : x[i].jarvisMode /\ x[i].plan # <<>>}}

InitRace ==
    /\ store \in RaceStores
    /\ text = <<>>
    /\ call = [op |-> "none"]
    /\ result = [success |-> TRUE]
    /\ io = [reads |-> 0, write |-> "none", runs |-> 0, runner |-> "none"]
    /\ inflight = Idle

\* what the file holds after a call that read the store `seen` ends with
\* outcome o while the file holds `current`, with every session but the
\* call's own taken from the file as it is now
StoreAfter_Merge(current, seen, o) ==
    LET mine == {i \in 1..Len(seen.data.sessions) :
                    o.store.data.sessions[i].mode # seen.data.sessions[i].mode}
    IN  IF o.write \in {"none", "open_failed"} THEN current
        ELSE IF o.write = "dump_failed" \/ current.file # "ok" THEN o.store
        ELSE [current EXCEPT !.data.sessions =
                 [i \in 1..Len(current.data.sessions) |->
                     IF i \in mine THEN o.store.data.sessions[i]
                     ELSE current.data.sessions[i]]]

\* what the file holds after a call that read the store `seen` ends with
\* outcome o while the file holds `current`: `json.dump(sessions_data, f)`
\* writes the document the call read, with its change, over the file
StoreAfter(current, seen, o) ==
    IF o.write \in {"none", "open_failed"} THEN current ELSE o.store

\* p's call has done `sessions_data = read_sessions_file()`
read_sessions_file_done(p, c) ==
    /\ inflight[p].pc = "idle"
    /\ inflight' = [inflight EXCEPT ![p] = [pc |-> "read", call |-> c, seen |-> store]]
    /\ UNCHANGED <<store, text, call, result, io>>

\* p's call runs from its read to its return, on what it read
Ends(p, o) ==
    /\ call' = inflight[p].call @@ [proc |-> p]
    /\ text' = <<>>
    /\ result' = o.result
    /\ store' = StoreAfter(store, inflight[p].seen, o)
    /\ io' = [reads |-> o.reads, write |-> o.write, runs |-> 0, runner |-> "none"]
    /\ inflight' = [inflight EXCEPT ![p] = [pc     |-> "done",
                                            call   |-> inflight[p].call,
                                            seen   |-> inflight[p].seen,
                                            result |-> o.result,
                                            write  |-> o.write]]

execute_plan_begin(p, session_id) ==
    read_sessions_file_done(p, [op |-> "execute_plan", session_id |-> session_id])

execute_plan_end(p) ==
    /\ inflight[p].pc = "read"
    /\ inflight[p].call.op = "execute_plan"
    /\ \E o \in execute_plan_call(inflight[p].seen, inflight[p].call.session_id) :
          Ends(p, o)

update_session_mode_begin(p, session_id, mode) ==
    read_sessions_file_done(p, [op |-> "update_session_mode",
                                session_id |-> session_id, mode |-> mode])

update_session_mode_end(p) ==
    /\ inflight[p].pc = "read"
    /\ inflight[p].call.op = "update_session_mode"
    /\ \E o \in update_session_mode_call(inflight[p].seen, inflight[p].call.session_id,
                                         inflight[p].call.mode) :
          Ends(p, o)

NextRace ==
    \/ \E p \in Procs : \E id \in Ids : execute_plan_begin(p, id)
    \/ \E p \in Procs : execute_plan_end(p)
    \/ \E p \in Procs : \E id \in Ids : \E m \in Modes : update_session_mode_begin(p, id, m)
    \/ \E p \in Procs : update_session_mode_end(p)

\* each process makes one mode-changing call, in any interleaving
SpecRace == InitRace /\ [][NextRace]_vars

----------------------------------------------------------------------------
(* Vocabulary of the properties *)

HasSession(st, id) == FindSession(StoreSessions(st), id) # 0

SessionById(st, id) == StoreSessions(st)[FindSession(StoreSessions(st), id)]

\* every session's mode, in store order
ModesOf(st) == [i \in 1..Len(StoreSessions(st)) |-> StoreSessions(st)[i].mode]

WriteFailed(w) == w \in {"open_failed", "dump_failed"}

NotFound(id) == Failure(<<"Session ", id, " not found">>)

NotInJarvisMode(id) == Failure(<<"Session ", id, " is not in Jarvis mode">>)

NoPlan == Failure(<<"No plan found for execution">>)

CouldNotRead == Failure(<<"Could not read sessions file">>)

\* the three precondition failures of execute_plan(id) on the store st, in
\* the order of the claim: which one the call must end with, if any
PreconditionFailure(st, id) ==
    IF ~HasSession(st, id) THEN <<NotFound(id)>>
    ELSE IF ~SessionById(st, id).jarvisMode THEN <<NotInJarvisMode(id)>>
    ELSE IF SessionById(st, id).plan = <<>> THEN <<NoPlan>>
    ELSE <<>>

----------------------------------------------------------------------------
(* C1 *)

\* C1 as stated: on every execute_plan(id) call, an id absent from the store
\* gives 'not found', a session with jarvisMode false gives 'not in Jarvis
\* mode', a Jarvis session with an empty plan gives 'no plan', checked in
\* that order, and in each of these cases nothing is written and the store is
\* the same after the call as before.
C1_AsStated ==
    [][ call'.op = "execute_plan" /\ PreconditionFailure(store, call'.session_id) # <<>>
          => /\ result' = PreconditionFailure(store, call'.session_id)[1]
             /\ io'.write = "none"
             /\ store' = store ]_vars

\* C1 (amended): the store read is checked first. When the read yields no
\* document (no file, a file that does not parse, an empty object),
\* execute_plan(id) fails with 'Could not read sessions file'; when it yields
\* one, an absent id gives 'not found', a session with jarvisMode false gives
\* 'not in Jarvis mode' and a Jarvis session with an empty plan gives 'no
\* plan', in that order. In all four cases nothing is written and the store
\* is the same after the call as before.
C1_PreconditionsInOrder ==
    [][ call'.op = "execute_plan"
          => /\ store.file # "ok"
                  => result' = CouldNotRead /\ io'.write = "none" /\ store' = store
             /\ store.file = "ok" /\ PreconditionFailure(store, call'.session_id) # <<>>
                  => /\ result' = PreconditionFailure(store, call'.session_id)[1]
                     /\ io'.write = "none"
                     /\ store' = store ]_vars

\* an execute_plan call on a Jarvis session without a plan has failed
C1_Witness ==
    /\ call.op = "execute_plan"
    /\ store.file = "ok"
    /\ HasSession(store, call.session_id)
    /\ SessionById(store, call.session_id).jarvisMode
    /\ result = NoPlan

----------------------------------------------------------------------------
(* C2 *)

\* C2: whenever execute_plan(id) returns success=true, the stored session id
\* has mode "execution", however the store write ended; and an execute_plan
\* call that fails leaves every stored mode as it was.
C2_SuccessMeansExecutionStored ==
    [][ call'.op = "execute_plan"
          => /\ result'.success
                  => /\ HasSession(store', call'.session_id)
                     /\ SessionById(store', call'.session_id).mode = "execution"
             /\ ~result'.success => ModesOf(store') = ModesOf(store) ]_vars

----------------------------------------------------------------------------
(* C3 *)

\* C3: execute_plan(id) returns success=true (the handoff) only when the
\* session id had jarvisMode true, mode "planning" and a non-empty plan
\* before the call.
C3_HandoffOnlyFromPlanning ==
    [][ call'.op = "execute_plan" /\ result'.success
          => /\ HasSession(store, call'.session_id)
             /\ SessionById(store, call'.session_id).jarvisMode
             /\ SessionById(store, call'.session_id).mode = "planning"
             /\ SessionById(store, call'.session_id).plan # <<>> ]_vars

----------------------------------------------------------------------------
(* C4 *)

\* C4: when the store read or the store write of an execute_plan or
\* update_session_mode call fails, the call returns success=false with an
\* error message.
C4_StoreFailureSurfaced ==
    [][ ( /\ call'.op \in {"execute_plan", "update_session_mode"}
          /\ (store.file # "ok" \/ WriteFailed(io'.write)) )
          => ~result'.success /\ "error" \in DOMAIN result' ]_vars

----------------------------------------------------------------------------
(* C5 *)

\* the session the claim says the lookup returns on the store st
ClaimedActive(st) ==
    LET ss == StoreSessions(st)
        a  == st.data.activeSessionId
        J  == {i \in 1..Len(ss) : ss[i].jarvisMode}
    IN  IF \E i \in J : ss[i].id = a
        THEN {<<ss[i]>> : i \in {j \in J : ss[j].id = a}}
        ELSE IF J # {}
        THEN {<<ss[i]>> : i \in {j \in J : \A k \in J : j <= k}}
        ELSE {None}

\* C5: get_active_jarvis_session returns the session the activeSessionId
\* names when that session has jarvisMode true; otherwise the first session
\* in store order that has jarvisMode true; and None exactly when no session
\* has jarvisMode true.
C5_ActiveSessionLookup ==
    call.op = "get_active_jarvis_session"
      => /\ result.returned \in ClaimedActive(store)
         /\ result.returned = None
              <=> \A i \in 1..Len(StoreSessions(store)) :
                     ~StoreSessions(store)[i].jarvisMode

\* the lookup fell back: the activeSessionId names a session without
\* jarvisMode and the lookup returned a later session
C5_Witness ==
    /\ call.op = "get_active_jarvis_session"
    /\ HasSession(store, store.data.activeSessionId)
    /\ ~SessionById(store, store.data.activeSessionId).jarvisMode
    /\ result.returned # None
    /\ result.returned[1].id # store.data.activeSessionId

----------------------------------------------------------------------------
(* C6 *)

\* C6: get_current_plan reports ready_for_execution true iff the session it
\* resolved has a non-empty plan and mode "planning"; and right after a
\* successful execute_plan on that session it reports ready_for_execution
\* false and current_mode "execution".
C6_ReadyForExecution ==
    [][ call'.op = "get_current_plan" /\ result'.success
          => /\ result'.ready_for_execution
                  <=> /\ SessionById(store, result'.session_id).plan # <<>>
                      /\ SessionById(store, result'.session_id).mode = "planning"
             /\ ( /\ call.op = "execute_plan"
                  /\ result.success
                  /\ call.session_id = result'.session_id )
                  => /\ ~result'.ready_for_execution
                     /\ result'.current_mode = "execution" ]_vars

----------------------------------------------------------------------------
(* C7 *)

\* a session but for its mode
Unmoded(session) == [session EXCEPT !.mode = "any"]

\* C7: a tool call of server.py leaves the session ids, the activeSessionId
\* and every session's jarvisMode, plan and name as they were, and changes at
\* most the mode of the one session it targets.
C7_OnlyModeChanges ==
    [][ /\ Len(StoreSessions(store')) = Len(StoreSessions(store))
        /\ store'.data.activeSessionId = store.data.activeSessionId
        /\ \A i \in 1..Len(StoreSessions(store)) :
              Unmoded(StoreSessions(store')[i]) = Unmoded(StoreSessions(store)[i])
        /\ Cardinality({i \in 1..Len(StoreSessions(store)) :
              StoreSessions(store')[i].mode # StoreSessions(store)[i].mode}) <= 1 ]_vars

----------------------------------------------------------------------------
(* C8 *)

\* C8: update_session_mode(id, m) on a store that holds a document: if a session
\* has that id, its stored mode becomes m and the call reports success with
\* new_mode m; if none has, the call reports 'not found' and writes nothing.
C8_ModeOverwritten ==
    [][ call'.op = "update_session_mode" /\ store.file = "ok"
          => IF HasSession(store, call'.session_id)
             THEN /\ result'.success
                  /\ result'.new_mode = call'.mode
                  /\ HasSession(store', call'.session_id)
                  /\ SessionById(store', call'.session_id).mode = call'.mode
             ELSE /\ result' = NotFound(call'.session_id)
                  /\ io'.write = "none" ]_vars

----------------------------------------------------------------------------
(* C9 *)

\* C9: in every reachable store, every session's mode is "planning" or
\* "execution".
C9_ModeEnumerated ==
    \A i \in 1..Len(StoreSessions(store)) : StoreSessions(store)[i].mode \in Modes

----------------------------------------------------------------------------
(* C10 *)

\* the normal form of the claim: whitespace runs collapsed to single spaces,
\* then trimmed, then lower-cased
ClaimedNormalForm(t) == lower(strip(re_sub_ws(t)))

\* C10: each phrase-detection entry point reports a match exactly when the
\* normal form of its text holds the trigger phrase (for
\* analyze_user_input_for_execution_intent: one of its trigger phrases).
C10_DetectionNormalized ==
    /\ call.op = "detect_magic_phrase"
         => result.phrase_detected <=> Contains(ClaimedNormalForm(text), MAGIC_PHRASE)
    /\ call.op = "analyze_user_input_for_execution_intent"
         => result.execution_triggered
              <=> \E k \in 1..Len(EXECUTION_PHRASES) :
                     Contains(ClaimedNormalForm(text), EXECUTION_PHRASES[k])
    /\ call.op = "check_for_execution_command"
         => result.execution_triggered
              <=> Contains(ClaimedNormalForm(text), MAGIC_PHRASE)

----------------------------------------------------------------------------
(* C11 *)

\* the session the lookup resolves on the store st is ready for the handoff:
\* jarvisMode true, mode "planning", a non-empty plan
ResolvedReady(st) ==
    \E got \in ClaimedActive(st) :
        /\ got # None
        /\ got[1].jarvisMode
        /\ got[1].mode = "planning"
        /\ got[1].plan # <<>>

\* C11: when the session the lookup resolves is ready for the handoff,
\* detect_magic_phrase on a text that holds the trigger phrase returns
\* execution_triggered=true with that session's id, the store then shows mode
\* "execution" for that session, and the execution prompt holds the session's
\* plan and the session id.
C11_EndToEnd ==
    [][ ( /\ call'.op = "detect_magic_phrase"
          /\ Contains(ClaimedNormalForm(text'), MAGIC_PHRASE)
          /\ ResolvedReady(store) )
          => \E got \in ClaimedActive(store) :
                /\ result'.execution_triggered
                /\ result'.session_id = got[1].id
                /\ HasSession(store', got[1].id)
                /\ SessionById(store', got[1].id).mode = "execution"
                /\ result'.execution_prompt[2] = got[1].plan
                /\ result'.execution_prompt[4] = got[1].id ]_vars

----------------------------------------------------------------------------
(* C12 *)

\* the result reports a failure: success is false, or the status is one of the
\* runner's failures
ReportsFailure(res) ==
    \/ "success" \in DOMAIN res /\ ~res.success
    \/ "status" \in DOMAIN res /\ res.status \in {"error", "timeout", "exception"}

\* C12: the result of every tool call, of both variants, carries a success or a
\* status field, and the result of every failed call carries an error field.
C12_UniformResult ==
    call.op # "none" =>
        /\ ("success" \in DOMAIN result \/ "status" \in DOMAIN result)
        /\ (ReportsFailure(result) => "error" \in DOMAIN result)

----------------------------------------------------------------------------
(* C13 *)

\* the sessions, by store position, that both stores hold
Kept(st, after) ==
    {i \in 1..Len(StoreSessions(st)) :
        /\ i <= Len(StoreSessions(after))
        /\ StoreSessions(after)[i].id = StoreSessions(st)[i].id}

\* the step moves the stored mode of some session from mode a to mode b
ModeMoves(a, b) ==
    \E i \in Kept(store, store') :
        /\ StoreSessions(store)[i].mode = a
        /\ StoreSessions(store')[i].mode = b

\* the step is an execute_plan that succeeded, called directly or by
\* detect_magic_phrase
ExecutePlanSucceeds ==
    \/ call'.op = "execute_plan" /\ result'.success
    \/ call'.op = "detect_magic_phrase" /\ result'.execution_triggered

\* C13 as stated: a stored mode goes from "planning" to "execution" only in an
\* execute_plan call that succeeds, and a step that is not an
\* update_session_mode call never takes a mode from "execution" to "planning".
C13_AsStated ==
    [][ /\ (ModeMoves("planning", "execution") => ExecutePlanSucceeds)
        /\ (call'.op # "update_session_mode" => ~ModeMoves("execution", "planning"))
      ]_vars

\* C13, amended: in a step that is not an update_session_mode call, a stored
\* mode goes from "planning" to "execution" only when the step is an
\* execute_plan call that succeeds, and never from "execution" to "planning".
C13_OnlyExecutePlanOrManual ==
    [][ call'.op # "update_session_mode" =>
            /\ (ModeMoves("planning", "execution") => ExecutePlanSucceeds)
            /\ ~ModeMoves("execution", "planning") ]_vars

\* an execute_plan call succeeded, its write went through, and the store shows
\* "execution" for its session
C13_Witness ==
    /\ call.op = "execute_plan"
    /\ result.success
    /\ io.write = "ok"
    /\ HasSession(store, call.session_id)
    /\ SessionById(store, call.session_id).mode = "execution"

----------------------------------------------------------------------------
(* C16 *)

\* the texts detect_magic_phrase is called on whose normal form holds the
\* trigger phrase, and those whose normal form does not
WithPhrase == {t \in SomeTexts : Contains(ClaimedNormalForm(t), MAGIC_PHRASE)}

WithoutPhrase == SomeTexts \ WithPhrase

\* C16: detect_magic_phrase on a text without the trigger phrase reads and
\* writes nothing, leaves the store as it was and returns phrase_detected and
\* execution_triggered false; get_active_jarvis_session and get_current_plan
\* never write and leave the store as it was, whatever they return.
C16_NoSideEffects ==
    [][ /\ ( /\ call'.op = "detect_magic_phrase"
             /\ text' \in WithoutPhrase )
           => /\ io'.reads = 0
              /\ io'.write = "none"
              /\ store' = store
              /\ ~result'.phrase_detected
              /\ ~result'.execution_triggered
        /\ call'.op \in {"get_active_jarvis_session", "get_current_plan"}
           => /\ io'.write = "none"
              /\ store' = store ]_vars

\* detect_magic_phrase has answered "not detected" without touching the store
C16_Witness ==
    /\ call.op = "detect_magic_phrase"
    /\ text \in WithoutPhrase
    /\ ~result.phrase_detected
    /\ io.reads = 0
    /\ store.file = "ok"

----------------------------------------------------------------------------
(* C17 *)

\* a session other than the one with the id `id` is ready for the handoff
AnotherReady(st, id) ==
    \E i \in 1..Len(StoreSessions(st)) :
        /\ StoreSessions(st)[i].id # id
        /\ StoreSessions(st)[i].jarvisMode
        /\ StoreSessions(st)[i].mode = "planning"
        /\ StoreSessions(st)[i].plan # <<>>

\* C17: when the text holds the trigger phrase and the session the lookup
\* resolves has an empty plan, detect_magic_phrase returns
\* execution_triggered=false with an error, writes nothing and leaves every
\* session's mode as it was, whatever the other sessions of the store hold.
C17_OnlyResolvedSession ==
    [][ ( /\ call'.op = "detect_magic_phrase"
          /\ text' \in WithPhrase
          /\ \E got \in ClaimedActive(store) : got # None /\ got[1].plan = <<>> )
          => /\ ~result'.execution_triggered
             /\ "error" \in DOMAIN result'
             /\ io'.write = "none"
             /\ ModesOf(store') = ModesOf(store) ]_vars

\* detect_magic_phrase matched the phrase and reported the resolved session's
\* missing plan, while another session of the store was ready for the handoff
C17_Witness ==
    /\ call.op = "detect_magic_phrase"
    /\ text \in WithPhrase
    /\ ~result.execution_triggered
    /\ result.error = <<"No plan found for execution">>
    /\ SessionById(store, result.session_id).plan = <<>>
    /\ AnotherReady(store, result.session_id)

----------------------------------------------------------------------------
(* C15 *)

\* the texts whose normal form holds one of the v2 trigger phrases
WithExecutionPhrase ==
    {t \in Texts : \E k \in 1..Len(EXECUTION_PHRASES) :
                      Contains(ClaimedNormalForm(t), EXECUTION_PHRASES[k])}

\* C15: analyze_user_input_for_execution_intent runs the runner once when the
\* text holds a trigger phrase and not at all when it holds none; it always
\* returns a result with a status, and the status is "success" exactly when
\* the runner exited 0, "error" exactly when it exited non-zero, "timeout"
\* exactly when it ran past the timeout, "exception" exactly when starting it
\* raised, and "monitoring" exactly when no phrase was detected.
C15_RunnerOnceStatusByOutcome ==
    call.op = "analyze_user_input_for_execution_intent" =>
        /\ io.runs = (IF text \in WithExecutionPhrase THEN 1 ELSE 0)
        /\ "status" \in DOMAIN result
        /\ (result.status = "success")    <=> (io.runner = "exit0")
        /\ (result.status = "error")      <=> (io.runner = "nonzero")
        /\ (result.status = "timeout")    <=> (io.runner = "timeout")
        /\ (result.status = "exception")  <=> (io.runner = "raises")
        /\ (result.status = "monitoring") <=> (text \notin WithExecutionPhrase)

\* the runner ran once, past the timeout, and the call reported "timeout"
C15_Witness ==
    /\ call.op = "analyze_user_input_for_execution_intent"
    /\ text \in WithExecutionPhrase
    /\ io.runs = 1
    /\ io.runner = "timeout"
    /\ result.status = "timeout"

----------------------------------------------------------------------------
(* C14 *)

\* the mode process p's call stores
NewMode(p) ==
    IF inflight[p].call.op = "execute_plan" THEN "execution" ELSE inflight[p].call.mode

\* the stored mode of the session p's call names, in the store st
TargetMode(st, p) == SessionById(st, inflight[p].call.session_id).mode

\* p's call has returned success after a write that went through
Succeeded(p) ==
    /\ inflight[p].pc = "done"
    /\ inflight[p].result.success
    /\ inflight[p].write = "ok"

\* C14: the read-modify-write is not atomic.  The file a call has just written
\* is the document that call read, with that call's mode change and no other;
\* so when two calls on different sessions both return success, the earlier
\* writer's mode is in the final store exactly when the later writer had read
\* it, and is lost when the later writer read before the earlier one wrote.
C14_LostUpdate ==
    \A q \in Procs :
        ( /\ "proc" \in DOMAIN call
          /\ call.proc = q
          /\ Succeeded(q) )
        => /\ store.data.activeSessionId = inflight[q].seen.data.activeSessionId
           /\ \A i \in 1..Len(inflight[q].seen.data.sessions) :
                 store.data.sessions[i] =
                     IF inflight[q].seen.data.sessions[i].id = inflight[q].call.session_id
                     THEN [inflight[q].seen.data.sessions[i] EXCEPT !.mode = NewMode(q)]
                     ELSE inflight[q].seen.data.sessions[i]
           /\ \A p \in Procs \ {q} :
                 ( /\ Succeeded(p)
                   /\ inflight[p].call.session_id # inflight[q].call.session_id )
                 => ( TargetMode(store, p) = NewMode(p)
                        <=> TargetMode(inflight[q].seen, p) = NewMode(p) )

\* two calls on different sessions both returned success after a write that
\* went through, each changed its session's mode, and the final store does
\* not show the change of one of them
C14_Witness ==
    \E p, q \in Procs :
        /\ p # q
        /\ Succeeded(p)
        /\ Succeeded(q)
        /\ inflight[p].call.session_id # inflight[q].call.session_id
        /\ TargetMode(inflight[p].seen, p) # NewMode(p)
        /\ TargetMode(inflight[q].seen, q) # NewMode(q)
        /\ store.file = "ok"
        /\ TargetMode(store, p) # NewMode(p)
        /\ TargetMode(store, q) = NewMode(q)

====
